---- MODULE Spec2Model ----
(***************************************************************************)
(* A model of taggui's ImageListModel (taggui/models/image_list_model.py): *)
(* the catalog of images with their tag lists, the sidecar files, the      *)
(* bounded undo stack and the redo stack, and the operations on them.      *)
(*                                                                         *)
(* Python lists are objects: two names may refer to one list, and an       *)
(* in-place change through one is seen through the other.  The model keeps *)
(* that: `heap` maps an object identity to a list of tags, and the images  *)
(* and the history items hold identities, not values.                      *)
(*                                                                         *)
(* A tag is a string, modelled as a sequence of one-character strings.     *)
(***************************************************************************)
EXTENDS Integers, Sequences, FiniteSets, TLC

\* ------------------------------------------------------------------ bounds

\* Mutation operations are offered only while the undo stack is shorter
\* than this (specification Spec).
MaxHist == 2
\* The mutation operations of a run (specification SpecOps).
MaxRun == 2
\* The mutation operations of a run (specification SpecCap) and the tags of
\* an image (specification SpecHist): two more than the undo stack holds.
MaxOps == 34

\* ---------------------------------------------------------------- constants

UNDO_STACK_SIZE == 32

\* The separator the model was constructed with (the default ', ').
separator == <<",", " ">>

\* ------------------------------------------------------------------ strings

Min(a, b) == IF a < b THEN a ELSE b

Range(s) == {s[k] : k \in DOMAIN s}

\* The code point order Python compares characters by.
Ord(c) == CASE c = " " -> 32 [] c = "," -> 44 [] c = "a" -> 97 [] c = "b" -> 98

\* s < t for Python strings.
RECURSIVE StrLess(_, _)
StrLess(s, t) ==
    IF t = <<>> THEN FALSE
    ELSE IF s = <<>> THEN TRUE
    ELSE IF s[1] # t[1] THEN Ord(s[1]) < Ord(t[1])
    ELSE StrLess(Tail(s), Tail(t))

\* separator.join(tags)
RECURSIVE Join(_)
Join(tags) ==
    IF tags = <<>> THEN <<>>
    ELSE IF Len(tags) = 1 THEN tags[1]
    ELSE tags[1] \o separator \o Join(Tail(tags))

StartsWith(s, f) == Len(f) <= Len(s) /\ SubSeq(s, 1, Len(f)) = f

\* find_text in caption (find_text non-empty)
Contains(s, f) == \E k \in 1..(Len(s) - Len(f) + 1) : SubSeq(s, k, k + Len(f) - 1) = f

\* caption.replace(find_text, replace_text): every occurrence, left to right,
\* not overlapping (find_text non-empty).
RECURSIVE Replace(_, _, _)
Replace(s, f, r) ==
    IF Len(s) < Len(f) THEN s
    ELSE IF StartsWith(s, f) THEN r \o Replace(SubSeq(s, Len(f) + 1, Len(s)), f, r)
    ELSE <<s[1]>> \o Replace(Tail(s), f, r)

\* caption.split(separator): never empty, '' splits to [''].
RECURSIVE SplitFrom(_, _)
SplitFrom(s, cur) ==
    IF s = <<>> THEN <<cur>>
    ELSE IF StartsWith(s, separator)
         THEN <<cur>> \o SplitFrom(SubSeq(s, Len(separator) + 1, Len(s)), <<>>)
    ELSE SplitFrom(Tail(s), Append(cur, s[1]))

Split(s) == SplitFrom(s, <<>>)

\* tag.strip()
RECURSIVE LStrip(_)
LStrip(s) == IF s # <<>> /\ s[1] = " " THEN LStrip(Tail(s)) ELSE s

RECURSIVE RStrip(_)
RStrip(s) == IF s # <<>> /\ s[Len(s)] = " " THEN RStrip(SubSeq(s, 1, Len(s) - 1)) ELSE s

Strip(s) == RStrip(LStrip(s))

IsNonEmpty(tag) == tag # <<>>

\* The tags load_directory makes of a sidecar file's text.
ParseCaption(caption) ==
    IF caption = <<>> THEN <<>>
    ELSE LET parts == Split(caption)
             stripped == [k \in DOMAIN parts |-> Strip(parts[k])]
         IN SelectSeq(stripped, IsNonEmpty)

\* list(dict.fromkeys(tags)): the first occurrences, in order.
RECURSIVE Unique(_)
Unique(s) ==
    IF s = <<>> THEN <<>>
    ELSE LET init == Unique(SubSeq(s, 1, Len(s) - 1))
             x == s[Len(s)]
         IN IF x \in Range(init) THEN init ELSE Append(init, x)

\* sorted(tags): insertion into a sorted list after every element that is
\* not greater (stable).
RECURSIVE InsertSorted(_, _)
InsertSorted(sorted, x) ==
    IF sorted = <<>> THEN <<x>>
    ELSE IF StrLess(x, sorted[1]) THEN <<x>> \o sorted
    ELSE <<sorted[1]>> \o InsertSorted(Tail(sorted), x)

RECURSIVE Sorted(_)
Sorted(s) ==
    IF s = <<>> THEN <<>>
    ELSE InsertSorted(Sorted(SubSeq(s, 1, Len(s) - 1)), s[Len(s)])

\* tag_counter[tag]: a Counter gives 0 for a missing key.
CountOf(tag_counter, tag) == IF tag \in DOMAIN tag_counter THEN tag_counter[tag] ELSE 0

\* sorted(tags, key=lambda tag: tag_counter[tag], reverse=True): stable,
\* equal counts keep their order.
\* Variant: a tag goes before the tags of equal count (not stable).
RECURSIVE InsertByCount_before_equal(_, _, _)
InsertByCount_before_equal(sorted, x, tag_counter) ==
    IF sorted = <<>> THEN <<x>>
    ELSE IF CountOf(tag_counter, x) >= CountOf(tag_counter, sorted[1]) THEN <<x>> \o sorted
    ELSE <<sorted[1]>> \o InsertByCount_before_equal(Tail(sorted), x, tag_counter)

RECURSIVE InsertByCount(_, _, _)
InsertByCount(sorted, x, tag_counter) ==
    IF sorted = <<>> THEN <<x>>
    ELSE IF CountOf(tag_counter, x) > CountOf(tag_counter, sorted[1]) THEN <<x>> \o sorted
    ELSE <<sorted[1]>> \o InsertByCount(Tail(sorted), x, tag_counter)

RECURSIVE SortedByCount(_, _)
SortedByCount(s, tag_counter) ==
    IF s = <<>> THEN <<>>
    ELSE InsertByCount(SortedByCount(SubSeq(s, 1, Len(s) - 1), tag_counter),
                       s[Len(s)], tag_counter)

\* The permutations of 1..n, as sequences (what random.shuffle may produce).
Perms(n) == {p \in [1..n -> 1..n] : \A a, b \in 1..n : a # b => p[a] # p[b]}

Permute(s, p) == [k \in 1..Len(s) |-> s[p[k]]]


\* -------------------------------------------------------------------- state

VARIABLES
    images,      \* self.images: per image, the identity of its tags list
    heap,        \* identity -> the list of tags that object holds now
    undo_stack,  \* self.undo_stack: deque(maxlen=UNDO_STACK_SIZE) of HistoryItem
    redo_stack,  \* self.redo_stack: list of HistoryItem
    disk,        \* per image, its sidecar .txt file
    call,        \* the most recent call: its name, arguments and environment
    log,         \* what that call emitted, in order: signals, dialogs, writes
    last,        \* history: the last call that changed the stacks
    run,         \* history: operations done and undone since a run began
    rt           \* history: the state before an undo, for the round trip

vars == <<images, heap, undo_stack, redo_stack, disk, call, log, last, run, rt>>

\* @dataclass HistoryItem; tags holds list identities.
HistoryItem(action_name, tags, should_ask_for_confirmation) ==
    [action_name |-> action_name, tags |-> tags,
     should_ask_for_confirmation |-> should_ask_for_confirmation]

\* One emission of a call.
Ev(ev, i, j, ok) == [ev |-> ev, i |-> i, j |-> j, ok |-> ok]

Emit(m, e) == [m EXCEPT !.log = Append(@, e)]

\* The program state a call starts from; exc: an exception is propagating;
\* changed: the call's changed_image_indices; count: its removed_tag_count.
Cur == [images |-> images, heap |-> heap, undo_stack |-> undo_stack,
        redo_stack |-> redo_stack, disk |-> disk, log |-> <<>>,
        changed |-> <<>>, count |-> 0, exc |-> FALSE]

\* image.tags of image i.
TagsOf(m, i) == m.heap[m.images[i]]

\* The tag sequences of all images, by value.
Values(m) == [k \in 1..Len(m.images) |-> TagsOf(m, k)]

\* A stack by value: each item with the tag sequences its lists hold now.
StackView(m, stack) ==
    [k \in 1..Len(stack) |->
        [action_name |-> stack[k].action_name,
         tags |-> [j \in 1..Len(stack[k].tags) |-> m.heap[stack[k].tags[j]]],
         should_ask_for_confirmation |-> stack[k].should_ask_for_confirmation]]

\* image.tags = <a new list>
Assign(m, i, tags) ==
    [m EXCEPT !.heap = Append(@, tags), !.images[i] = Len(m.heap) + 1]

\* image.tags.sort(), .extend(), random.shuffle(image.tags): the list object
\* itself changes, and so does every reference to it.
InPlace(m, i, tags) == [m EXCEPT !.heap[m.images[i]] = tags]

\* changed_image_indices.append(image_index)
Mark(m, i) == [m EXCEPT !.changed = Append(@, i)]

\* Variant: deque(maxlen=UNDO_STACK_SIZE + 1).
DequeAppend_one_more(stack, item) ==
    IF Len(stack) > UNDO_STACK_SIZE THEN Append(Tail(stack), item)
    ELSE Append(stack, item)

\* Variant: a deque without maxlen, which never drops an item.
DequeAppend_unbounded(stack, item) == Append(stack, item)

\* deque(maxlen=UNDO_STACK_SIZE).append: a full deque drops its oldest item.
DequeAppend(stack, item) ==
    IF Len(stack) >= UNDO_STACK_SIZE THEN Append(Tail(stack), item)
    ELSE Append(stack, item)

\* Variant: tags = [image.tags for image in self.images], the lists
\* themselves instead of copies.
add_to_undo_stack_by_reference(m, action_name, should_ask_for_confirmation) ==
    Emit([m EXCEPT !.undo_stack = DequeAppend(m.undo_stack,
                        HistoryItem(action_name, m.images, should_ask_for_confirmation)),
                   !.redo_stack = <<>>],
         Ev("update_undo_and_redo_actions_requested", 0, 0, TRUE))

\* Variant: without self.redo_stack.clear().
add_to_undo_stack_keep_redo(m, action_name, should_ask_for_confirmation) ==
    LET n == Len(m.heap)
        k == Len(m.images)
        copies == [j \in 1..k |-> m.heap[m.images[j]]]
        tags == [j \in 1..k |-> n + j]
    IN Emit([m EXCEPT !.heap = m.heap \o copies,
                      !.undo_stack = DequeAppend(m.undo_stack,
                          HistoryItem(action_name, tags, should_ask_for_confirmation))],
            Ev("update_undo_and_redo_actions_requested", 0, 0, TRUE))

\* add_to_undo_stack: tags = [image.tags.copy() for image in self.images]
add_to_undo_stack(m, action_name, should_ask_for_confirmation) ==
    LET n == Len(m.heap)
        k == Len(m.images)
        copies == [j \in 1..k |-> TagsOf(m, j)]
        tags == [j \in 1..k |-> n + j]
    IN Emit([m EXCEPT !.heap = m.heap \o copies,
                      !.undo_stack = DequeAppend(m.undo_stack,
                          HistoryItem(action_name, tags, should_ask_for_confirmation)),
                      !.redo_stack = <<>>],
            Ev("update_undo_and_redo_actions_requested", 0, 0, TRUE))

\* Variant: without the try/except, the OSError of a failed write propagates.
write_image_tags_to_disk_raising(m, i, failing) ==
    IF i \in failing
    THEN [Emit(m, Ev("write", i, 0, FALSE)) EXCEPT !.exc = TRUE]
    ELSE Emit([m EXCEPT !.disk[i] = [exists |-> TRUE, text |-> Join(m.heap[m.images[i]])]],
              Ev("write", i, 0, TRUE))

\* write_image_tags_to_disk: an OSError is caught and reported, never raised;
\* a failed write leaves the file as it was.  failing: the images whose
\* sidecar file cannot be written during this call.
write_image_tags_to_disk(m, i, failing) ==
    IF i \in failing
    THEN Emit(m, Ev("write", i, 0, FALSE))
    ELSE Emit([m EXCEPT !.disk[i] = [exists |-> TRUE, text |-> Join(TagsOf(m, i))]],
              Ev("write", i, 0, TRUE))

\* if changed_image_indices: self.dataChanged.emit(first, last)
EmitDataChanged(m) ==
    IF m.changed # <<>> /\ ~m.exc
    THEN Emit(m, Ev("dataChanged", m.changed[1], m.changed[Len(m.changed)], TRUE))
    ELSE m

\* ---------------------------------------------------------------- undo, redo

\* Variant: without the comparison, every image is replaced and written.
RECURSIVE restore_loop_without_comparison(_, _, _, _)
restore_loop_without_comparison(m, i, history_tags, failing) ==
    IF i > Min(Len(m.images), Len(history_tags)) \/ m.exc THEN m
    ELSE restore_loop_without_comparison(
            write_image_tags_to_disk(
                [Mark(m, i) EXCEPT !.images[i] = history_tags[i]], i, failing),
            i + 1, history_tags, failing)

\* The loop of restore_history_tags over zip(self.images, history_item.tags).
RECURSIVE restore_loop(_, _, _, _)
restore_loop(m, i, history_tags, failing) ==
    IF i > Min(Len(m.images), Len(history_tags)) \/ m.exc THEN m
    ELSE IF TagsOf(m, i) = m.heap[history_tags[i]]
         THEN restore_loop(m, i + 1, history_tags, failing)
    ELSE restore_loop(
            write_image_tags_to_disk(
                [Mark(m, i) EXCEPT !.images[i] = history_tags[i]], i, failing),
            i + 1, history_tags, failing)

\* Variant: the popped item itself is pushed on the other stack, not the
\* current tags.
restore_apply_push_popped(m, is_undo, failing) ==
    LET source_stack == IF is_undo THEN m.undo_stack ELSE m.redo_stack
        history_item == source_stack[Len(source_stack)]
        popped == SubSeq(source_stack, 1, Len(source_stack) - 1)
        m1 == IF is_undo
              THEN [m EXCEPT !.undo_stack = popped,
                             !.redo_stack = Append(m.redo_stack, history_item)]
              ELSE [m EXCEPT !.redo_stack = popped,
                             !.undo_stack = DequeAppend(m.undo_stack, history_item)]
        m2 == EmitDataChanged(restore_loop(m1, 1, history_item.tags, failing))
    IN Emit(m2, Ev("update_undo_and_redo_actions_requested", 0, 0, TRUE))

\* restore_history_tags from source_stack.pop() on: the item pushed on the
\* other stack holds the images' own lists (tags = [image.tags for image in
\* self.images]), not copies.
restore_apply(m, is_undo, failing) ==
    LET source_stack == IF is_undo THEN m.undo_stack ELSE m.redo_stack
        history_item == source_stack[Len(source_stack)]
        popped == SubSeq(source_stack, 1, Len(source_stack) - 1)
        pushed == HistoryItem(history_item.action_name, m.images,
                              history_item.should_ask_for_confirmation)
        m1 == IF is_undo
              THEN [m EXCEPT !.undo_stack = popped,
                             !.redo_stack = Append(m.redo_stack, pushed)]
              ELSE [m EXCEPT !.redo_stack = popped,
                             !.undo_stack = DequeAppend(m.undo_stack, pushed)]
        m2 == EmitDataChanged(restore_loop(m1, 1, history_item.tags, failing))
    IN IF m2.exc THEN m2
       ELSE Emit(m2, Ev("update_undo_and_redo_actions_requested", 0, 0, TRUE))

\* Variant: the reply of the dialog is not looked at.
restore_history_tags_ignoring_reply(m, is_undo, reply, failing) ==
    LET source_stack == IF is_undo THEN m.undo_stack ELSE m.redo_stack
        history_item == source_stack[Len(source_stack)]
    IN IF source_stack = <<>> THEN m
       ELSE IF history_item.should_ask_for_confirmation
            THEN restore_apply(
                    Emit(m, Ev("get_confirmation_dialog_reply", 0, 0, reply = "Yes")),
                    is_undo, failing)
       ELSE restore_apply(m, is_undo, failing)

\* restore_history_tags: nothing on an empty source stack; the dialog when
\* the top item asks for it, and nothing more unless the reply is Yes.
restore_history_tags(m, is_undo, reply, failing) ==
    LET source_stack == IF is_undo THEN m.undo_stack ELSE m.redo_stack
        history_item == source_stack[Len(source_stack)]
    IN IF source_stack = <<>> THEN m
       ELSE IF history_item.should_ask_for_confirmation
            THEN IF reply # "Yes"
                 THEN Emit(m, Ev("get_confirmation_dialog_reply", 0, 0, FALSE))
                 ELSE restore_apply(
                        Emit(m, Ev("get_confirmation_dialog_reply", 0, 0, TRUE)),
                        is_undo, failing)
       ELSE restore_apply(m, is_undo, failing)


\* ------------------------------------------------------- mutation operations

\* The loop of add_tags over image_indices: the tags not yet in image.tags
\* are appended to the list itself, and the file is written either way.
RECURSIVE add_tags_loop(_, _, _, _, _)
add_tags_loop(m, k, tags, image_indices, failing) ==
    IF k > Len(image_indices) \/ m.exc THEN m
    ELSE LET i == image_indices[k]
             old == TagsOf(m, i)
             NotPresent(tag) == tag \notin Range(old)
             unique_tags == SelectSeq(tags, NotPresent)
         IN add_tags_loop(
                write_image_tags_to_disk(InPlace(m, i, old \o unique_tags), i, failing),
                k + 1, tags, image_indices, failing)

\* Variant: should_ask_for_confirmation = len(tags) > 1.
add_tags_ask_by_tag_count(m, tags, image_indices, failing) ==
    LET action_name == IF Len(tags) = 1 THEN "Add Tag" ELSE "Add Tags"
        m1 == add_tags_loop(add_to_undo_stack(m, action_name, Len(tags) > 1),
                            1, tags, image_indices, failing)
        rows == Range(image_indices)
        min_image_index == CHOOSE i \in rows : \A j \in rows : i <= j
        max_image_index == CHOOSE i \in rows : \A j \in rows : i >= j
    IN Emit(m1, Ev("dataChanged", min_image_index, max_image_index, TRUE))

\* add_tags(tags, image_indices); image_indices is not empty. dataChanged is
\* emitted from the least to the greatest row, whatever changed.
add_tags(m, tags, image_indices, failing) ==
    LET action_name == IF Len(tags) = 1 THEN "Add Tag" ELSE "Add Tags"
        should_ask_for_confirmation == Len(image_indices) > 1
        m1 == add_tags_loop(
                add_to_undo_stack(m, action_name, should_ask_for_confirmation),
                1, tags, image_indices, failing)
        rows == Range(image_indices)
        min_image_index == CHOOSE i \in rows : \A j \in rows : i <= j
        max_image_index == CHOOSE i \in rows : \A j \in rows : i >= j
    IN IF m1.exc THEN m1
       ELSE Emit(m1, Ev("dataChanged", min_image_index, max_image_index, TRUE))

\* Variant: the filter is not consulted.
Skipped_never(i, in_filtered_images_only, visible) == FALSE

\* in_filtered_images_only and not
\* self.proxy_image_list_model.is_image_in_filtered_images(image);
\* visible: the images the proxy model holds as filtered in.
Skipped(i, in_filtered_images_only, visible) ==
    in_filtered_images_only /\ i \notin visible

RECURSIVE rename_tag_loop(_, _, _, _, _, _, _)
rename_tag_loop(m, i, old_tag, new_tag, in_filtered_images_only, visible, failing) ==
    IF i > Len(m.images) \/ m.exc THEN m
    ELSE LET tags == TagsOf(m, i)
             renamed == [k \in 1..Len(tags) |->
                            IF tags[k] = old_tag THEN new_tag ELSE tags[k]]
             m1 == IF ~Skipped(i, in_filtered_images_only, visible)
                      /\ old_tag \in Range(tags)
                   THEN write_image_tags_to_disk(Assign(Mark(m, i), i, renamed),
                                                 i, failing)
                   ELSE m
         IN rename_tag_loop(m1, i + 1, old_tag, new_tag, in_filtered_images_only,
                            visible, failing)

rename_tag(m, old_tag, new_tag, in_filtered_images_only, visible, failing) ==
    EmitDataChanged(rename_tag_loop(add_to_undo_stack(m, "Rename Tag", TRUE), 1,
        old_tag, new_tag, in_filtered_images_only, visible, failing))

RECURSIVE delete_tag_loop(_, _, _, _, _, _)
delete_tag_loop(m, i, tag, in_filtered_images_only, visible, failing) ==
    IF i > Len(m.images) \/ m.exc THEN m
    ELSE LET tags == TagsOf(m, i)
             Other(image_tag) == image_tag # tag
             m1 == IF ~Skipped(i, in_filtered_images_only, visible)
                      /\ tag \in Range(tags)
                   THEN write_image_tags_to_disk(
                            Assign(Mark(m, i), i, SelectSeq(tags, Other)), i, failing)
                   ELSE m
         IN delete_tag_loop(m1, i + 1, tag, in_filtered_images_only, visible, failing)

delete_tag(m, tag, in_filtered_images_only, visible, failing) ==
    EmitDataChanged(delete_tag_loop(add_to_undo_stack(m, "Delete Tag", TRUE), 1,
        tag, in_filtered_images_only, visible, failing))

\* Variant: the text is replaced within each tag, not in the caption.
RECURSIVE find_and_replace_loop_per_tag(_, _, _, _, _, _, _)
find_and_replace_loop_per_tag(m, i, find_text, replace_text, in_filtered_images_only, visible, failing) ==
    IF i > Len(m.images) \/ m.exc THEN m
    ELSE LET tags == TagsOf(m, i)
             m1 == IF ~Skipped(i, in_filtered_images_only, visible)
                      /\ \E k \in 1..Len(tags) : Contains(tags[k], find_text)
                   THEN write_image_tags_to_disk(
                            Assign(Mark(m, i), i,
                                   [k \in 1..Len(tags) |->
                                       Replace(tags[k], find_text, replace_text)]),
                            i, failing)
                   ELSE m
         IN find_and_replace_loop_per_tag(m1, i + 1, find_text, replace_text,
                                          in_filtered_images_only, visible, failing)

RECURSIVE find_and_replace_loop(_, _, _, _, _, _, _)
find_and_replace_loop(m, i, find_text, replace_text, in_filtered_images_only, visible, failing) ==
    IF i > Len(m.images) \/ m.exc THEN m
    ELSE LET caption == Join(TagsOf(m, i))
             m1 == IF ~Skipped(i, in_filtered_images_only, visible)
                      /\ Contains(caption, find_text)
                   THEN write_image_tags_to_disk(
                            Assign(Mark(m, i), i,
                                   Split(Replace(caption, find_text, replace_text))),
                            i, failing)
                   ELSE m
         IN find_and_replace_loop(m1, i + 1, find_text, replace_text,
                                  in_filtered_images_only, visible, failing)

\* Variant: the snapshot is taken before find_text is looked at.
find_and_replace_snapshot_first(m, find_text, replace_text, in_filtered_images_only, visible, failing) ==
    IF find_text = <<>> THEN add_to_undo_stack(m, "Find and Replace", TRUE)
    ELSE EmitDataChanged(find_and_replace_loop(
            add_to_undo_stack(m, "Find and Replace", TRUE), 1, find_text,
            replace_text, in_filtered_images_only, visible, failing))

\* find_and_replace: returns at once on an empty find_text.
find_and_replace(m, find_text, replace_text, in_filtered_images_only, visible, failing) ==
    IF find_text = <<>> THEN m
    ELSE EmitDataChanged(find_and_replace_loop(
            add_to_undo_stack(m, "Find and Replace", TRUE), 1, find_text,
            replace_text, in_filtered_images_only, visible, failing))

\* One image of a sort: sorted_tags is what the sort makes of its tags. With
\* do_not_reorder_first_tag a new list is assigned, otherwise the list is
\* sorted in place; the image counts as changed when its caption changed.
sort_image(m, i, sorted_tags, do_not_reorder_first_tag, failing) ==
    LET old_caption == Join(TagsOf(m, i))
        m1 == IF do_not_reorder_first_tag THEN Assign(m, i, sorted_tags)
              ELSE InPlace(m, i, sorted_tags)
    IN IF Join(sorted_tags) # old_caption
       THEN write_image_tags_to_disk(Mark(m1, i), i, failing)
       ELSE m1

RECURSIVE sort_tags_alphabetically_loop(_, _, _, _)
sort_tags_alphabetically_loop(m, i, do_not_reorder_first_tag, failing) ==
    IF i > Len(m.images) \/ m.exc THEN m
    ELSE LET tags == TagsOf(m, i)
             sorted_tags == IF do_not_reorder_first_tag
                            THEN <<tags[1]>> \o Sorted(Tail(tags))
                            ELSE Sorted(tags)
             m1 == IF Len(tags) < 2 THEN m
                   ELSE sort_image(m, i, sorted_tags, do_not_reorder_first_tag, failing)
         IN sort_tags_alphabetically_loop(m1, i + 1, do_not_reorder_first_tag, failing)

sort_tags_alphabetically(m, do_not_reorder_first_tag, failing) ==
    EmitDataChanged(sort_tags_alphabetically_loop(
        add_to_undo_stack(m, "Sort Tags", TRUE), 1, do_not_reorder_first_tag, failing))

RECURSIVE sort_tags_by_frequency_loop(_, _, _, _, _)
sort_tags_by_frequency_loop(m, i, tag_counter, do_not_reorder_first_tag, failing) ==
    IF i > Len(m.images) \/ m.exc THEN m
    ELSE LET tags == TagsOf(m, i)
             sorted_tags == IF do_not_reorder_first_tag
                            THEN <<tags[1]>> \o SortedByCount(Tail(tags), tag_counter)
                            ELSE SortedByCount(tags, tag_counter)
             m1 == IF Len(tags) < 2 THEN m
                   ELSE sort_image(m, i, sorted_tags, do_not_reorder_first_tag, failing)
         IN sort_tags_by_frequency_loop(m1, i + 1, tag_counter,
                                        do_not_reorder_first_tag, failing)

sort_tags_by_frequency(m, tag_counter, do_not_reorder_first_tag, failing) ==
    EmitDataChanged(sort_tags_by_frequency_loop(
        add_to_undo_stack(m, "Sort Tags", TRUE), 1, tag_counter,
        do_not_reorder_first_tag, failing))

\* The number of elements random.shuffle permutes for image i.
ShuffledLen(m, i, do_not_reorder_first_tag) ==
    LET n == Len(TagsOf(m, i))
    IN IF n < 2 THEN 0 ELSE IF do_not_reorder_first_tag THEN n - 1 ELSE n

\* perms[i]: the permutation random.shuffle draws for image i.
RECURSIVE shuffle_tags_loop(_, _, _, _, _)
shuffle_tags_loop(m, i, perms, do_not_reorder_first_tag, failing) ==
    IF i > Len(m.images) \/ m.exc THEN m
    ELSE LET tags == TagsOf(m, i)
             m1 == IF Len(tags) < 2 THEN m
                   ELSE IF do_not_reorder_first_tag
                   THEN write_image_tags_to_disk(
                            Assign(Mark(m, i), i,
                                   <<tags[1]>> \o Permute(Tail(tags), perms[i])),
                            i, failing)
                   ELSE write_image_tags_to_disk(
                            InPlace(Mark(m, i), i, Permute(tags, perms[i])),
                            i, failing)
         IN shuffle_tags_loop(m1, i + 1, perms, do_not_reorder_first_tag, failing)

shuffle_tags(m, perms, do_not_reorder_first_tag, failing) ==
    EmitDataChanged(shuffle_tags_loop(
        add_to_undo_stack(m, "Shuffle Tags", TRUE), 1, perms,
        do_not_reorder_first_tag, failing))

RECURSIVE remove_duplicate_tags_loop(_, _, _)
remove_duplicate_tags_loop(m, i, failing) ==
    IF i > Len(m.images) \/ m.exc THEN m
    ELSE LET tags == TagsOf(m, i)
             tag_count == Len(tags)
             unique_tag_count == Cardinality(Range(tags))
             m1 == IF tag_count = unique_tag_count THEN m
                   ELSE write_image_tags_to_disk(
                            Assign([Mark(m, i) EXCEPT
                                      !.count = @ + tag_count - unique_tag_count],
                                   i, Unique(tags)),
                            i, failing)
         IN remove_duplicate_tags_loop(m1, i + 1, failing)

\* Variant: the changed images are counted, not the removed tags.
remove_duplicate_tags_counting_images(m, failing) ==
    LET m1 == EmitDataChanged(remove_duplicate_tags_loop(
                add_to_undo_stack(m, "Remove Duplicate Tags", TRUE), 1, failing))
    IN IF m1.exc THEN m1 ELSE Emit(m1, Ev("return", Len(m1.changed), 0, TRUE))

\* remove_duplicate_tags returns removed_tag_count.
remove_duplicate_tags(m, failing) ==
    LET m1 == EmitDataChanged(remove_duplicate_tags_loop(
                add_to_undo_stack(m, "Remove Duplicate Tags", TRUE), 1, failing))
    IN IF m1.exc THEN m1 ELSE Emit(m1, Ev("return", m1.count, 0, TRUE))

HasText(tag) == Strip(tag) # <<>>

\* Every image gets a new list, changed or not.
RECURSIVE remove_empty_tags_loop(_, _, _)
remove_empty_tags_loop(m, i, failing) ==
    IF i > Len(m.images) \/ m.exc THEN m
    ELSE LET tags == TagsOf(m, i)
             kept == SelectSeq(tags, HasText)
             old_tag_count == Len(tags)
             new_tag_count == Len(kept)
             m0 == Assign(m, i, kept)
             m1 == IF old_tag_count = new_tag_count THEN m0
                   ELSE write_image_tags_to_disk(
                            [Mark(m0, i) EXCEPT
                               !.count = @ + old_tag_count - new_tag_count],
                            i, failing)
         IN remove_empty_tags_loop(m1, i + 1, failing)

\* remove_empty_tags returns removed_tag_count.
remove_empty_tags(m, failing) ==
    LET m1 == EmitDataChanged(remove_empty_tags_loop(
                add_to_undo_stack(m, "Remove Empty Tags", TRUE), 1, failing))
    IN IF m1.exc THEN m1 ELSE Emit(m1, Ev("return", m1.count, 0, TRUE))

\* Variant: without the comparison with the current tags.
update_image_tags_without_comparison(m, i, tags, failing) ==
    write_image_tags_to_disk(
        Emit(Assign(m, i, tags), Ev("dataChanged", i, i, TRUE)), i, failing)

\* update_image_tags: dataChanged is emitted before the file is written.
update_image_tags(m, i, tags, failing) ==
    IF TagsOf(m, i) = tags THEN m
    ELSE write_image_tags_to_disk(
            Emit(Assign(m, i, tags), Ev("dataChanged", i, i, TRUE)), i, failing)

\* Variant: without self.redo_stack.clear().
load_directory_keep_redo(m) ==
    LET n == Len(m.disk)
        tags == [i \in 1..n |-> IF m.disk[i].exists
                                THEN ParseCaption(m.disk[i].text) ELSE <<>>]
        offset == Len(tags)
        kept == [k \in 1..Len(m.redo_stack) |->
                    [m.redo_stack[k] EXCEPT
                        !.tags = [j \in 1..Len(@) |-> @[j] + offset]]]
    IN Emit(Emit([m EXCEPT !.images = [i \in 1..n |-> i], !.heap = tags \o m.heap,
                           !.undo_stack = <<>>, !.redo_stack = kept],
                 Ev("update_undo_and_redo_actions_requested", 0, 0, TRUE)),
            Ev("modelReset", 0, 0, TRUE))

\* load_directory: the images and both stacks are cleared and the tags are
\* read from the sidecar files; the images are those of the directory, in
\* path order.
load_directory(m) ==
    LET n == Len(m.disk)
        tags == [i \in 1..n |-> IF m.disk[i].exists
                                THEN ParseCaption(m.disk[i].text) ELSE <<>>]
    IN Emit(Emit([m EXCEPT !.images = [i \in 1..n |-> i], !.heap = tags,
                           !.undo_stack = <<>>, !.redo_stack = <<>>],
                 Ev("update_undo_and_redo_actions_requested", 0, 0, TRUE)),
            Ev("modelReset", 0, 0, TRUE))


\* undo() and redo()
undo(m, reply, failing) == restore_history_tags(m, TRUE, reply, failing)

redo(m, reply, failing) == restore_history_tags(m, FALSE, reply, failing)

\* ------------------------------------------------------- object identities

\* Identities are renumbered after every call in the order images, undo
\* stack, redo stack meet them, and lists nothing refers to are dropped: two
\* states that differ only in the names of their objects are one state.
RECURSIVE RefsOfStack(_)
RefsOfStack(stack) ==
    IF stack = <<>> THEN <<>> ELSE stack[1].tags \o RefsOfStack(Tail(stack))

RenameStack(stack, ren) ==
    [k \in 1..Len(stack) |->
        [stack[k] EXCEPT !.tags = [j \in 1..Len(stack[k].tags) |-> ren[stack[k].tags[j]]]]]

Canon(m) ==
    LET order == Unique(m.images \o RefsOfStack(m.undo_stack)
                                 \o RefsOfStack(m.redo_stack))
        ren == [id \in Range(order) |-> CHOOSE k \in 1..Len(order) : order[k] = id]
    IN [images |-> [k \in 1..Len(m.images) |-> ren[m.images[k]]],
        heap |-> [k \in 1..Len(order) |-> m.heap[order[k]]],
        undo_stack |-> RenameStack(m.undo_stack, ren),
        redo_stack |-> RenameStack(m.redo_stack, ren)]

\* ---------------------------------------------------------------- history

NoRun == [phase |-> "none", n |-> 0, u |-> 0, base |-> <<>>, first |-> <<>>,
          fresh |-> FALSE]

\* No run any more: something else than operations and then undos happened.
Broken == [NoRun EXCEPT !.phase = "broken"]

NoRT == [phase |-> "none", tags |-> <<>>, undo |-> <<>>, redo |-> <<>>]

\* kind: "mutation" (a snapshot was pushed), "undo", "redo" (approved and
\* applied), "load", "direct" (update_image_tags), "noop" (a call that
\* returned early: an empty stack, a declined dialog, an empty find_text).
\* A run is a row of mutation operations followed by a row of approved
\* undos: n operations, u undos, base the tags before the first operation,
\* first the tags after it, fresh when the undo stack was empty before it.
RunAfter(kind, m2) ==
    CASE kind = "mutation" ->
            IF run.phase = "ops"
            THEN [run EXCEPT !.n = Min(@ + 1, MaxOps)]
            ELSE [phase |-> "ops", n |-> 1, u |-> 0, base |-> Values(Cur),
                  first |-> Values(m2), fresh |-> (undo_stack = <<>>)]
      [] kind = "undo" ->
            IF run.phase \in {"ops", "undos"} /\ run.u < run.n
            THEN [run EXCEPT !.phase = "undos", !.u = @ + 1]
            ELSE Broken
      [] kind = "noop" -> run
      [] kind = "load" -> NoRun
      [] OTHER -> Broken

\* The state before an approved undo is kept while the next call is the
\* approved redo.
RtAfter(kind) ==
    CASE kind = "undo" ->
            [phase |-> "undone", tags |-> Values(Cur),
             undo |-> StackView(Cur, undo_stack), redo |-> StackView(Cur, redo_stack)]
      [] kind = "redo" /\ rt.phase = "undone" -> [rt EXCEPT !.phase = "redone"]
      [] OTHER -> NoRT

\* The kind of the last call that changed the stacks, and how many items
\* the redo stack held when it began.
LastAfter(kind) ==
    IF kind \in {"mutation", "undo", "redo", "load"}
    THEN [kind |-> kind, redo_before |-> Len(redo_stack)]
    ELSE last

Call(op, args, failing, reply) ==
    [op |-> op, args |-> args, failing |-> failing, reply |-> reply]

\* The call ends in m2.
Step(m2, c, kind) ==
    LET canon == Canon(m2)
    IN /\ images' = canon.images
       /\ heap' = canon.heap
       /\ undo_stack' = canon.undo_stack
       /\ redo_stack' = canon.redo_stack
       /\ disk' = m2.disk
       /\ call' = c
       /\ log' = m2.log
       /\ last' = LastAfter(kind)
       /\ run' = RunAfter(kind, m2)
       /\ rt' = RtAfter(kind)

\* ------------------------------------------------------------------ actions

AddTags(tags, image_indices, failing) ==
    /\ image_indices # <<>>
    /\ \A k \in 1..Len(image_indices) : image_indices[k] \in 1..Len(images)
    /\ Step(add_tags(Cur, tags, image_indices, failing),
            Call("add_tags", <<tags, image_indices>>, failing, "none"), "mutation")

RenameTag(old_tag, new_tag, in_filtered_images_only, visible, failing) ==
    Step(rename_tag(Cur, old_tag, new_tag, in_filtered_images_only, visible, failing),
         Call("rename_tag", <<old_tag, new_tag, in_filtered_images_only, visible>>,
              failing, "none"), "mutation")

DeleteTag(tag, in_filtered_images_only, visible, failing) ==
    Step(delete_tag(Cur, tag, in_filtered_images_only, visible, failing),
         Call("delete_tag", <<tag, in_filtered_images_only, visible>>, failing, "none"),
         "mutation")

FindAndReplace(find_text, replace_text, in_filtered_images_only, visible, failing) ==
    Step(find_and_replace(Cur, find_text, replace_text, in_filtered_images_only,
                          visible, failing),
         Call("find_and_replace",
              <<find_text, replace_text, in_filtered_images_only, visible>>,
              failing, "none"),
         IF find_text = <<>> THEN "noop" ELSE "mutation")

SortTagsAlphabetically(do_not_reorder_first_tag, failing) ==
    Step(sort_tags_alphabetically(Cur, do_not_reorder_first_tag, failing),
         Call("sort_tags_alphabetically", <<do_not_reorder_first_tag>>, failing, "none"),
         "mutation")

SortTagsByFrequency(tag_counter, do_not_reorder_first_tag, failing) ==
    Step(sort_tags_by_frequency(Cur, tag_counter, do_not_reorder_first_tag, failing),
         Call("sort_tags_by_frequency", <<tag_counter, do_not_reorder_first_tag>>,
              failing, "none"),
         "mutation")

\* Every outcome of random.shuffle, for the images that are shuffled.
RECURSIVE PermChoices(_)
PermChoices(sizes) ==
    IF sizes = <<>> THEN {<<>>}
    ELSE {<<p>> \o rest : p \in Perms(sizes[1]), rest \in PermChoices(Tail(sizes))}

ShuffleTags(do_not_reorder_first_tag, failing) ==
    \E perms \in PermChoices([i \in 1..Len(images) |->
                                ShuffledLen(Cur, i, do_not_reorder_first_tag)]) :
        Step(shuffle_tags(Cur, perms, do_not_reorder_first_tag, failing),
             Call("shuffle_tags", <<perms, do_not_reorder_first_tag>>, failing, "none"),
             "mutation")

RemoveDuplicateTags(failing) ==
    Step(remove_duplicate_tags(Cur, failing),
         Call("remove_duplicate_tags", <<>>, failing, "none"), "mutation")

RemoveEmptyTags(failing) ==
    Step(remove_empty_tags(Cur, failing),
         Call("remove_empty_tags", <<>>, failing, "none"), "mutation")

UpdateImageTags(i, tags, failing) ==
    /\ i \in 1..Len(images)
    /\ Step(update_image_tags(Cur, i, tags, failing),
            Call("update_image_tags", <<i, tags>>, failing, "none"), "direct")

\* Whether restore_history_tags gets past its two early returns.
Applies(stack, reply) ==
    /\ stack # <<>>
    /\ stack[Len(stack)].should_ask_for_confirmation => reply = "Yes"

Undo(reply, failing) ==
    Step(undo(Cur, reply, failing), Call("undo", <<>>, failing, reply),
         IF Applies(undo_stack, reply) THEN "undo" ELSE "noop")

Redo(reply, failing) ==
    Step(redo(Cur, reply, failing), Call("redo", <<>>, failing, reply),
         IF Applies(redo_stack, reply) THEN "redo" ELSE "noop")

LoadDirectory ==
    Step(load_directory(Cur), Call("load_directory", <<>>, {}, "none"), "load")

\* ------------------------------------------------------------------- inputs

T(c) == <<c>>

NoFile == [exists |-> FALSE, text |-> <<>>]

File(tags) == [exists |-> TRUE, text |-> Join(tags)]

Replies == {"Yes", "No"}

AB == (T("a") :> 5) @@ (T("b") :> 1)

Init(directories) ==
    /\ images = <<>>
    /\ heap = <<>>
    /\ undo_stack = <<>>
    /\ redo_stack = <<>>
    /\ disk \in directories
    /\ call = Call("__init__", <<>>, {}, "none")
    /\ log = <<>>
    /\ last = [kind |-> "none", redo_before |-> 0]
    /\ run = NoRun
    /\ rt = NoRT

\* ------------------------------------------------------ specification Spec
\* One image; undo, redo, load and four operations in any order, every write
\* succeeding: an in-place operation that asks no confirmation (add_tags),
\* one that does (sort_tags_alphabetically), operations that assign new
\* lists, and the early return of find_and_replace. Operations are offered
\* while the undo stack holds fewer than MaxHist items.

Directory1 == {<<File(<<T("b"), T("a")>>)>>}

Init1 == Init(Directory1)

Mutation1 ==
    \/ AddTags(<<T("a")>>, <<1>>, {})
    \/ DeleteTag(T("a"), FALSE, {}, {})
    \/ SortTagsAlphabetically(FALSE, {})
    \/ \E find_text \in {<<>>, T("b")} : FindAndReplace(find_text, T("a"), FALSE, {}, {})

Next ==
    \/ Len(undo_stack) < MaxHist /\ Mutation1
    \/ \E reply \in Replies : Undo(reply, {})
    \/ \E reply \in Replies : Redo(reply, {})
    \/ LoadDirectory

Spec == Init1 /\ [][Next]_vars

\* --------------------------------------------------- specification SpecOps
\* Two images; after the directory is loaded, up to MaxRun mutation
\* operations of every kind, and then undo and redo in any order.

Directory2 == {<<File(<<T("b"), T("a")>>), NoFile>>}

Init2 == Init(Directory2)

Mutation2 ==
    \/ \E image_indices \in {<<1>>, <<1, 2>>} : AddTags(<<T("a")>>, image_indices, {})
    \/ RenameTag(T("b"), T("a"), FALSE, {}, {})
    \/ DeleteTag(T("a"), FALSE, {}, {})
    \/ \E find_text \in {<<>>, T("b")} : FindAndReplace(find_text, <<>>, FALSE, {}, {})
    \/ SortTagsAlphabetically(FALSE, {})
    \/ \E do_not_reorder_first_tag \in BOOLEAN :
          SortTagsByFrequency(AB, do_not_reorder_first_tag, {})
    \/ \E do_not_reorder_first_tag \in BOOLEAN :
          ShuffleTags(do_not_reorder_first_tag, {})
    \/ RemoveDuplicateTags({})
    \/ RemoveEmptyTags({})

NextOps ==
    \/ images = <<>> /\ LoadDirectory
    \/ /\ images # <<>>
       /\ run.phase \in {"none", "ops"}
       /\ run.n < MaxRun
       /\ Mutation2
    \/ images # <<>> /\ \E reply \in Replies : Undo(reply, {})
    \/ images # <<>> /\ \E reply \in Replies : Redo(reply, {})

SpecOps == Init2 /\ [][NextOps]_vars

\* --------------------------------------------------- specification SpecCap
\* One image without a caption file; after the directory is loaded, up to
\* MaxOps calls of add_tags, each adding one tag the image has not got, and
\* then undo and redo in any order. The undo stack has its real capacity.

Directory3 == {<<NoFile>>}

Init3 == Init(Directory3)

\* The tag 'a', 'aa', 'aaa', ... of k characters.
NewTag(k) == [j \in 1..k |-> "a"]

NextCap ==
    \/ images = <<>> /\ LoadDirectory
    \/ /\ images # <<>>
       /\ run.phase \in {"none", "ops"}
       /\ run.n < MaxOps
       /\ AddTags(<<NewTag(Len(TagsOf(Cur, 1)) + 1)>>, <<1>>, {})
    \/ images # <<>> /\ Undo("Yes", {})
    \/ images # <<>> /\ Redo("Yes", {})

SpecCap == Init3 /\ [][NextCap]_vars


\* ---------------------------------------------------- specification SpecIO
\* Two images that share a tag; after the directory is loaded, up to MaxRun
\* operations that change both images, and then approved undos and redos in
\* any order; in each call the writes of any of the files may fail.

Directory4 == {<<File(<<T("b"), T("a")>>), File(<<T("b")>>)>>}

Init4 == Init(Directory4)

Failing == SUBSET {1, 2}

Mutation4(failing) ==
    \/ AddTags(<<T("a")>>, <<1, 2>>, failing)
    \/ RenameTag(T("b"), T("a"), FALSE, {}, failing)
    \/ RemoveDuplicateTags(failing)

NextIO ==
    \/ images = <<>> /\ LoadDirectory
    \/ /\ images # <<>>
       /\ run.phase \in {"none", "ops"}
       /\ run.n < MaxRun
       /\ \E failing \in Failing : Mutation4(failing)
    \/ images # <<>> /\ \E failing \in Failing : Undo("Yes", failing)
    \/ images # <<>> /\ \E failing \in Failing : Redo("Yes", failing)

SpecIO == Init4 /\ [][NextIO]_vars

\* ---------------------------------------------------- specification SpecFn
\* Two images out of three directories; after the directory is loaded, up to
\* MaxRun operations on all images (find_and_replace within a tag, across
\* tags and into new tags; rename_tag; delete_tag; remove_duplicate_tags;
\* sort_tags_by_frequency with and without the first tag kept),
\* update_image_tags, and approved undos and redos.

Str_a_cat == <<"a", " ", "c", "a", "t">>

Str_catfish == <<"c", "a", "t", "f", "i", "s", "h">>

Str_cat == <<"c", "a", "t">>

Str_dog == <<"d", "o", "g">>

Directory5 ==
    {<<File(<<T("a"), T("b"), T("a"), T("c"), T("b")>>), File(<<T("b"), T("a")>>)>>,
     <<File(<<Str_a_cat, Str_catfish>>), File(<<T("b")>>)>>,
     <<File(<<T("d"), T("c"), T("a")>>), NoFile>>}

Init5 == Init(Directory5)

\* find_text and replace_text
Replacements == {<<Str_cat, Str_dog>>, <<separator, <<>>>>, <<T("b"), separator>>}

Mutation5 ==
    \/ RenameTag(T("b"), T("a"), FALSE, {}, {})
    \/ DeleteTag(T("a"), FALSE, {}, {})
    \/ \E r \in Replacements : FindAndReplace(r[1], r[2], FALSE, {}, {})
    \/ RemoveDuplicateTags({})
    \/ \E do_not_reorder_first_tag \in BOOLEAN :
          SortTagsByFrequency(AB, do_not_reorder_first_tag, {})

NextFn ==
    \/ images = <<>> /\ LoadDirectory
    \/ /\ images # <<>>
       /\ run.phase \in {"none", "ops"}
       /\ run.n < MaxRun
       /\ Mutation5
    \/ /\ run.phase # "broken"
       /\ \E i \in 1..Len(images), tags \in {<<>>, <<T("b"), T("a")>>} :
             UpdateImageTags(i, tags, {})
    \/ images # <<>> /\ Undo("Yes", {})
    \/ images # <<>> /\ Redo("Yes", {})

SpecFn == Init5 /\ [][NextFn]_vars

\* ------------------------------------------------- specification SpecScope
\* Two images that share their tags; after the directory is loaded, up to
\* MaxRun calls of rename_tag, delete_tag and find_and_replace, on all images
\* or on the filtered ones, and approved undos and redos.

Directory6 == {<<File(<<T("b"), T("a")>>), File(<<T("a"), T("b")>>)>>}

Init6 == Init(Directory6)

\* in_filtered_images_only, and the images the proxy model filters in.
Scopes == {<<FALSE, {}>>, <<TRUE, {}>>, <<TRUE, {1}>>, <<TRUE, {2}>>}

Mutation6(in_filtered_images_only, visible) ==
    \/ RenameTag(T("b"), T("a"), in_filtered_images_only, visible, {})
    \/ DeleteTag(T("a"), in_filtered_images_only, visible, {})
    \/ FindAndReplace(T("b"), T("a"), in_filtered_images_only, visible, {})

NextScope ==
    \/ images = <<>> /\ LoadDirectory
    \/ /\ images # <<>>
       /\ run.phase \in {"none", "ops"}
       /\ run.n < MaxRun
       /\ \E scope \in Scopes : Mutation6(scope[1], scope[2])
    \/ images # <<>> /\ Undo("Yes", {})
    \/ images # <<>> /\ Redo("Yes", {})

SpecScope == Init6 /\ [][NextScope]_vars

\* -------------------------------------------------- specification SpecHist
\* Two images; add_tags of one tag neither image has got, on both images,
\* while the first image holds fewer than MaxOps tags, and undo and redo, in
\* any order; load_directory at the start and again whenever the undo stack
\* is full. The undo stack has its real capacity, so that a full undo stack
\* meets undos, redos and further operations.

Directory7 == {<<NoFile, File(<<T("b")>>)>>}

Init7 == Init(Directory7)

Digits == <<"0", "1", "2", "3", "4", "5", "6", "7", "8", "9">>

\* The tag '01', '02', ..., '10', '11', ... of two digits.
TagNo(k) == <<Digits[(k \div 10) + 1], Digits[(k % 10) + 1]>>

NextHist ==
    \/ (images = <<>> \/ Len(undo_stack) = UNDO_STACK_SIZE) /\ LoadDirectory
    \/ /\ images # <<>>
       /\ Len(TagsOf(Cur, 1)) < MaxOps
       /\ AddTags(<<TagNo(Len(TagsOf(Cur, 1)) + 1)>>, <<1, 2>>, {})
    \/ images # <<>> /\ Undo("Yes", {})
    \/ images # <<>> /\ Redo("Yes", {})

SpecHist == Init7 /\ [][NextHist]_vars

\* ------------------------------------------------------------------- claims

\* The operations that push a snapshot and ask for confirmation on undo.
AlwaysAsk == {"rename_tag", "delete_tag", "find_and_replace",
              "sort_tags_alphabetically", "sort_tags_by_frequency",
              "shuffle_tags", "remove_duplicate_tags", "remove_empty_tags"}

MutationOps == AlwaysAsk \cup {"add_tags"}

\* C1: after N <= UNDO_STACK_SIZE mutation operations and then N approved
\* undos, every image's tags are what they were before the first operation.
C1_UndoRestoresAll ==
    (run.phase = "undos" /\ run.u = run.n /\ run.n <= UNDO_STACK_SIZE)
        => Values(Cur) = run.base

\* Two operations, the first of which changed some tags, have been undone.
C1_Witness ==
    /\ run.phase = "undos"
    /\ run.n = 2
    /\ run.u = 2
    /\ run.first # run.base
    /\ Values(Cur) = run.base

\* C2: a mutation operation changes the tag sequences of no item that is
\* already on the undo stack (a snapshot is a copy by value).
C2_SnapshotIsValueCopy ==
    [][(/\ call'.op \in MutationOps
        /\ Len(undo_stack) < UNDO_STACK_SIZE
        /\ Len(undo_stack') = Len(undo_stack) + 1)
       => SubSeq(StackView(Cur, undo_stack)', 1, Len(undo_stack))
            = StackView(Cur, undo_stack)]_vars

\* C3: the undo stack never holds more than UNDO_STACK_SIZE items; after
\* UNDO_STACK_SIZE + 1 operations from an empty history the stack is full,
\* its oldest item holds the tags after the first operation and no item
\* holds the tags before it; UNDO_STACK_SIZE approved undos then end in the
\* tags after the first operation with the undo stack empty, and an undo
\* after that emits nothing and leaves all of this as it is.
C3_UndoStackBounded ==
    /\ Len(undo_stack) <= UNDO_STACK_SIZE
    /\ (run.fresh /\ run.n = UNDO_STACK_SIZE + 1 /\ run.phase = "ops") =>
          /\ Len(undo_stack) = UNDO_STACK_SIZE
          /\ StackView(Cur, undo_stack)[1].tags = run.first
          /\ \A k \in 1..Len(undo_stack) :
                StackView(Cur, undo_stack)[k].tags # run.base
    /\ (run.fresh /\ run.n = UNDO_STACK_SIZE + 1 /\ run.phase = "undos"
           /\ run.u = UNDO_STACK_SIZE) =>
          /\ Values(Cur) = run.first
          /\ Values(Cur) # run.base
          /\ undo_stack = <<>>
          /\ Len(redo_stack) = UNDO_STACK_SIZE
          /\ (call.op = "undo" /\ rt.phase = "none") => log = <<>>

\* After UNDO_STACK_SIZE + 1 operations and UNDO_STACK_SIZE approved undos,
\* one more undo has returned.
C3_Witness ==
    /\ run.fresh
    /\ run.n = UNDO_STACK_SIZE + 1
    /\ run.phase = "undos"
    /\ run.u = UNDO_STACK_SIZE
    /\ call.op = "undo"
    /\ rt.phase = "none"
    /\ Values(Cur) = run.first

\* C4: when a call that pushed a snapshot has returned, the redo stack is
\* empty.
C4_SnapshotClearsRedo == last.kind = "mutation" => redo_stack = <<>>

\* An operation has just pushed its snapshot, and found two undone items.
C4_Witness ==
    /\ last.kind = "mutation"
    /\ last.redo_before = 2
    /\ call.op \in MutationOps
    /\ redo_stack = <<>>

\* C5 as stated: the redo stack is non-empty only if the last call that
\* changed the stacks was an undo.
C5_RedoOnlyAfterUndo == redo_stack # <<>> => last.kind = "undo"

\* C5, amended: the redo stack is non-empty only if the last call that
\* changed the stacks was an undo or a redo.
C5_RedoOnlyAfterUndoOrRedo == redo_stack # <<>> => last.kind \in {"undo", "redo"}

\* A redo has left an undone item on the redo stack.
C5_Witness == redo_stack # <<>> /\ last.kind = "redo" /\ call.op = "redo"

\* C6: a declined confirmation of undo or redo changes neither stack, no
\* tags and no file, and emits nothing but the dialog.
C6_DeclineChangesNothing ==
    [][LET source_stack == IF call'.op = "undo" THEN undo_stack ELSE redo_stack
       IN (/\ call'.op \in {"undo", "redo"}
           /\ source_stack # <<>>
           /\ source_stack[Len(source_stack)].should_ask_for_confirmation
           /\ call'.reply # "Yes")
          => /\ UNCHANGED <<images, heap, undo_stack, redo_stack, disk>>
             /\ log' = <<Ev("get_confirmation_dialog_reply", 0, 0, FALSE)>>]_vars

\* An undo has just been declined.
C6_Witness ==
    /\ call.op = "undo"
    /\ call.reply = "No"
    /\ undo_stack # <<>>
    /\ undo_stack[Len(undo_stack)].should_ask_for_confirmation
    /\ log = <<Ev("get_confirmation_dialog_reply", 0, 0, FALSE)>>

\* C7: an approved undo moves the top undo item's label and flag to the redo
\* stack with the tags before the undo, and sets the tags to the item's; the
\* approved redo right after it gives back the tags and both stacks (labels,
\* flags, tag sequences) as they were before the undo.
C7_UndoRedoRoundTrip ==
    /\ rt.phase = "undone" =>
          LET item == rt.undo[Len(rt.undo)]
          IN /\ Values(Cur) = item.tags
             /\ StackView(Cur, undo_stack) = SubSeq(rt.undo, 1, Len(rt.undo) - 1)
             /\ StackView(Cur, redo_stack)
                  = Append(rt.redo, [item EXCEPT !.tags = rt.tags])
    /\ rt.phase = "redone" =>
          /\ Values(Cur) = rt.tags
          /\ StackView(Cur, undo_stack) = rt.undo
          /\ StackView(Cur, redo_stack) = rt.redo

\* An undo that changed some tags has been redone.
C7_Witness ==
    /\ rt.phase = "redone"
    /\ rt.undo[Len(rt.undo)].tags # rt.tags
    /\ rt.redo # <<>>

\* What call c makes of the current state when the writes of the images in
\* failing fail.
Apply(c, failing) ==
    CASE c.op = "add_tags" -> add_tags(Cur, c.args[1], c.args[2], failing)
      [] c.op = "rename_tag" ->
            rename_tag(Cur, c.args[1], c.args[2], c.args[3], c.args[4], failing)
      [] c.op = "remove_duplicate_tags" -> remove_duplicate_tags(Cur, failing)
      [] c.op = "undo" -> undo(Cur, c.reply, failing)
      [] c.op = "redo" -> redo(Cur, c.reply, failing)
      [] OTHER -> Cur

\* The images whose write a log attempted, in order.
RECURSIVE WriteAttempts(_)
WriteAttempts(l) ==
    IF l = <<>> THEN <<>>
    ELSE (IF l[1].ev = "write" THEN <<l[1].i>> ELSE <<>>) \o WriteAttempts(Tail(l))

\* A log without the outcomes of its writes.
Outcomeless(l) ==
    [k \in 1..Len(l) |-> IF l[k].ev = "write" THEN [l[k] EXCEPT !.ok = TRUE] ELSE l[k]]

\* C8: a call in which some writes fail leaves the images' tags and both
\* stacks as the same call with every write succeeding would, attempts the
\* same writes and emits the same signals in the same order; the files it
\* could write are as after the successful call, the others are untouched.
C8_FailedWriteDoesNotAbort ==
    [][(call'.op \in {"add_tags", "rename_tag", "remove_duplicate_tags",
                      "undo", "redo"}
        /\ call'.failing # {})
       => LET done == Apply(call', {})
              canon == Canon(done)
          IN /\ images' = canon.images
             /\ heap' = canon.heap
             /\ undo_stack' = canon.undo_stack
             /\ redo_stack' = canon.redo_stack
             /\ Outcomeless(log') = done.log
             /\ \A i \in 1..Len(disk) :
                   disk'[i] = IF i \in call'.failing /\ i \in Range(WriteAttempts(log'))
                              THEN disk[i] ELSE done.disk[i]]_vars

\* The write of the first image has failed and the second image has been
\* changed and written after it.
C8_Witness ==
    /\ call.op \in {"rename_tag", "undo", "redo"}
    /\ WriteAttempts(log) = <<1, 2>>
    /\ Ev("write", 1, 0, FALSE) \in Range(log)
    /\ Ev("write", 2, 0, TRUE) \in Range(log)
    /\ disk[1].text # Join(TagsOf(Cur, 1))
    /\ disk[2].text = Join(TagsOf(Cur, 2))

\* C9: when a mutation operation follows the same operation with the same
\* arguments some of whose writes failed, and its own writes succeed, the
\* files of the images whose writes had failed hold the images' tags.
C9_RetryRepairsFile ==
    [][(/\ call'.op \in MutationOps
        /\ call.op = call'.op
        /\ call.args = call'.args
        /\ call.failing # {}
        /\ call'.failing = {})
       => \A i \in 1..Len(images) :
             Ev("write", i, 0, FALSE) \in Range(log)
                => /\ disk'[i].exists
                   /\ disk'[i].text = Join(heap'[images'[i]])]_vars

\* C10: the pushed item asks for confirmation after every operation but
\* add_tags, and after add_tags exactly when there are two or more target
\* images; undo and redo open the dialog exactly when the top item of their
\* source stack asks for it; the item an undo or redo pushes has the flag of
\* the item it popped.
C10_ConfirmationPolicy ==
    [][LET op == call'.op
           is_undo == op = "undo"
           source_stack == IF is_undo THEN undo_stack ELSE redo_stack
           asked == \E k \in 1..Len(log') :
                       log'[k].ev = "get_confirmation_dialog_reply"
       IN /\ (op \in AlwaysAsk /\ Len(undo_stack') = Len(undo_stack) + 1)
                => undo_stack'[Len(undo_stack')].should_ask_for_confirmation
          /\ op = "add_tags"
                => (undo_stack'[Len(undo_stack')].should_ask_for_confirmation
                        <=> Len(call'.args[2]) > 1)
          /\ (op \in {"undo", "redo"} /\ source_stack # <<>>)
                => (asked <=> source_stack[Len(source_stack)]
                                    .should_ask_for_confirmation)
          /\ (is_undo /\ Len(undo_stack') = Len(undo_stack) - 1)
                => redo_stack'[Len(redo_stack')].should_ask_for_confirmation
                     = undo_stack[Len(undo_stack)].should_ask_for_confirmation
          /\ (op = "redo" /\ Len(redo_stack') = Len(redo_stack) - 1)
                => undo_stack'[Len(undo_stack')].should_ask_for_confirmation
                     = redo_stack[Len(redo_stack)].should_ask_for_confirmation]_vars

\* An add_tags on two images has been undone, after the dialog.
C10_Witness ==
    /\ call.op = "undo"
    /\ redo_stack # <<>>
    /\ redo_stack[Len(redo_stack)].action_name = "Add Tag"
    /\ redo_stack[Len(redo_stack)].should_ask_for_confirmation
    /\ Ev("get_confirmation_dialog_reply", 0, 0, TRUE) \in Range(log)

\* The images whose tags a step changes.
ChangedByStep == {i \in 1..Len(images) : Values(Cur)'[i] # Values(Cur)[i]}

\* C11: an operation other than shuffle_tags writes the file of an image
\* only if the image's tags after it differ from those before it, emits
\* dataChanged only from a changed image to a changed image, and emits no
\* dataChanged when it changes no image.
C11_ChangeDetectionByComparison ==
    [][(call'.op \in MutationOps \ {"shuffle_tags"} /\ Len(images') = Len(images))
       => \A k \in 1..Len(log') :
             /\ log'[k].ev = "write" => log'[k].i \in ChangedByStep
             /\ log'[k].ev = "dataChanged"
                   => log'[k].i \in ChangedByStep /\ log'[k].j \in ChangedByStep]_vars

\* C14: find_and_replace with an empty find_text leaves both stacks, all
\* tags and all files as they are and emits nothing.
C14_EmptyFindIsNoOp ==
    [][(call'.op = "find_and_replace" /\ call'.args[1] = <<>>)
       => /\ UNCHANGED <<images, heap, undo_stack, redo_stack, disk>>
          /\ log' = <<>>]_vars

\* find_and_replace with an empty find_text has returned while both stacks
\* hold items.
C14_Witness ==
    /\ call.op = "find_and_replace"
    /\ call.args[1] = <<>>
    /\ undo_stack # <<>>
    /\ redo_stack # <<>>
    /\ log = <<>>

\* How often x occurs in s.
Count(s, x) == Cardinality({k \in DOMAIN s : s[k] = x})

\* The images a log wrote, or tried to.
Written(l) == Range(WriteAttempts(l))

\* The dataChanged emissions of a log.
DataChanged(l) == SelectSeq(l, LAMBDA e : e.ev = "dataChanged")

\* One dataChanged from the least to the greatest element of set, none when
\* set is empty.
NotifiesSpan(l, set) ==
    IF set = {} THEN DataChanged(l) = <<>>
    ELSE DataChanged(l) = <<Ev("dataChanged", CHOOSE i \in set : \A j \in set : i <= j,
                               CHOOSE i \in set : \A j \in set : i >= j, TRUE)>>

\* C12: shuffle_tags writes and counts as changed exactly the images with at
\* least 2 tags, or at least 3 tags when the first tag is kept; the other
\* images keep their tags; with the flag the first tag stays; every image
\* keeps its tags as a multiset.
C12_ShuffleThreshold ==
    [][call'.op = "shuffle_tags"
       => LET do_not_reorder_first_tag == call'.args[2]
              threshold == IF do_not_reorder_first_tag THEN 3 ELSE 2
              old == Values(Cur)
              counted == {i \in 1..Len(images) : Len(old[i]) >= threshold}
          IN /\ Written(log') = counted
             /\ NotifiesSpan(log', counted)
             /\ \A i \in 1..Len(images) :
                   LET new == Values(Cur)'[i]
                   IN /\ i \notin counted => new = old[i]
                      /\ (do_not_reorder_first_tag /\ old[i] # <<>>) => new[1] = old[i][1]
                      /\ Len(new) = Len(old[i])
                      /\ \A x \in Range(old[i]) : Count(new, x) = Count(old[i], x)]_vars

\* C13: an approved undo or redo replaces and writes exactly the images
\* whose tags differ from the popped item's, in order, emits one dataChanged
\* from the least to the greatest of them or none, and leaves every image
\* with the item's tags.
C13_RestoreWritesDiffering ==
    [][LET is_undo == call'.op = "undo"
           source_stack == IF is_undo THEN undo_stack ELSE redo_stack
       IN (call'.op \in {"undo", "redo"} /\ Applies(source_stack, call'.reply))
          => LET snapshot == StackView(Cur, source_stack)[Len(source_stack)].tags
                 old == Values(Cur)
                 differing == {i \in 1..Len(images) : old[i] # snapshot[i]}
                 done == restore_history_tags(Cur, is_undo, call'.reply, call'.failing)
             IN /\ Written(log') = differing
                /\ \A k \in 1..(Len(WriteAttempts(log')) - 1) :
                      WriteAttempts(log')[k] < WriteAttempts(log')[k + 1]
                /\ NotifiesSpan(log', differing)
                /\ Values(Cur)' = snapshot
                /\ \A i \in 1..Len(images) \ differing : done.images[i] = images[i]]_vars

\* An undo has replaced and written the second image alone.
C13_Witness ==
    /\ call.op = "undo"
    /\ WriteAttempts(log) = <<2>>
    /\ DataChanged(log) = <<Ev("dataChanged", 2, 2, TRUE)>>
    /\ rt.phase = "undone"
    /\ rt.tags[1] = Values(Cur)[1]
    /\ rt.tags[2] # Values(Cur)[2]

\* C15: find_and_replace with a non-empty find_text gives every image in
\* scope whose caption contains find_text the tags that the caption, with
\* every occurrence replaced, splits into, and writes it; every other image
\* keeps its tags and is not written. 'cat' to 'dog' makes ['a dog',
\* 'dogfish'] of ['a cat', 'catfish']; ', ' to '' makes ['ba'] of ['b', 'a'];
\* 'b' to ', ' makes ['', ''] of ['b'].
C15_FindAndReplaceCaption ==
    [][(call'.op = "find_and_replace" /\ call'.args[1] # <<>>)
       => LET find_text == call'.args[1]
              replace_text == call'.args[2]
              old == Values(Cur)
          IN \A i \in 1..Len(images) :
                LET caption == Join(old[i])
                    new == Values(Cur)'[i]
                IN /\ IF ~Skipped(i, call'.args[3], call'.args[4])
                         /\ Contains(caption, find_text)
                      THEN /\ new = Split(Replace(caption, find_text, replace_text))
                           /\ i \in Written(log')
                      ELSE /\ new = old[i]
                           /\ i \notin Written(log')
                   /\ (old[i] = <<Str_a_cat, Str_catfish>> /\ find_text = Str_cat
                         /\ replace_text = Str_dog)
                        => new = << <<"a", " ", "d", "o", "g">>,
                                    <<"d", "o", "g", "f", "i", "s", "h">> >>
                   /\ (old[i] = <<T("b"), T("a")>> /\ find_text = separator
                         /\ replace_text = <<>>)
                        => new = << <<"b", "a">> >>
                   /\ (old[i] = <<T("b")>> /\ find_text = T("b")
                         /\ replace_text = separator)
                        => new = << <<>>, <<>> >>]_vars

\* ', ' has been replaced by '' in ['b', 'a'], across the tags.
C15_Witness ==
    /\ call.op = "find_and_replace"
    /\ call.args[1] = separator
    /\ call.args[2] = <<>>
    /\ run.phase = "ops"
    /\ run.n = 1
    /\ run.base[2] = <<T("b"), T("a")>>
    /\ Values(Cur)[2] = << <<"b", "a">> >>
    /\ 2 \in Written(log)

\* The sum of the lengths of the sequences of s.
RECURSIVE TotalLen(_)
TotalLen(s) == IF s = <<>> THEN 0 ELSE Len(s[1]) + TotalLen(Tail(s))

\* Where x occurs first in s.
FirstIndex(s, x) == CHOOSE k \in 1..Len(s) : s[k] = x /\ \A j \in 1..(k - 1) : s[j] # x

\* What a call returned.
Returned(l) == SelectSeq(l, LAMBDA e : e.ev = "return")

\* C16: remove_duplicate_tags leaves every image with each of its distinct
\* tags once, in the order of their first occurrences; an image without
\* duplicates keeps its tags and is not written, the others are written; the
\* call returns the number of tags removed over all images; ['a', 'b', 'a',
\* 'c', 'b'] becomes ['a', 'b', 'c']; a second call right after the first
\* changes nothing, writes nothing and returns 0.
C16_RemoveDuplicates ==
    [][call'.op = "remove_duplicate_tags"
       => LET old == Values(Cur)
              new == Values(Cur)'
          IN /\ \A i \in 1..Len(images) :
                   /\ Range(new[i]) = Range(old[i])
                   /\ \A x \in Range(new[i]) : Count(new[i], x) = 1
                   /\ \A k, l \in 1..Len(new[i]) :
                         k < l => FirstIndex(old[i], new[i][k]) < FirstIndex(old[i], new[i][l])
                   /\ i \in Written(log') <=> Len(new[i]) # Len(old[i])
                   /\ old[i] = <<T("a"), T("b"), T("a"), T("c"), T("b")>>
                         => new[i] = <<T("a"), T("b"), T("c")>>
             /\ Returned(log')
                  = <<Ev("return", TotalLen(old) - TotalLen(new), 0, TRUE)>>
             /\ (old = << <<T("a"), T("b"), T("a"), T("c"), T("b")>>, <<T("b"), T("a")>> >>)
                   => Returned(log') = <<Ev("return", 2, 0, TRUE)>>
             /\ call.op = "remove_duplicate_tags"
                   => /\ new = old
                      /\ Written(log') = {}
                      /\ Returned(log') = <<Ev("return", 0, 0, TRUE)>>]_vars

\* remove_duplicate_tags has been called twice in a row on ['a', 'b', 'a',
\* 'c', 'b'].
C16_Witness ==
    /\ call.op = "remove_duplicate_tags"
    /\ run.phase = "ops"
    /\ run.n = 2
    /\ run.base[1] = <<T("a"), T("b"), T("a"), T("c"), T("b")>>
    /\ run.first[1] = <<T("a"), T("b"), T("c")>>
    /\ Values(Cur) = run.first
    /\ Returned(log) = <<Ev("return", 0, 0, TRUE)>>

\* C17: sort_tags_by_frequency leaves an image of fewer than 2 tags alone;
\* of the others it keeps the first tag in place when told to, and makes of
\* the rest a permutation in non-increasing order of tag_counter (0 for a tag
\* it lacks) in which the tags of one count keep their order; an image is
\* written exactly when its tags changed; with {a: 5, b: 1}, ['b', 'a']
\* becomes ['a', 'b'] without the flag and stays ['b', 'a'] with it.
C17_SortByFrequencyStable ==
    [][call'.op = "sort_tags_by_frequency"
       => LET tag_counter == call'.args[1]
              do_not_reorder_first_tag == call'.args[2]
          IN \A i \in 1..Len(images) :
                LET old == Values(Cur)[i]
                    new == Values(Cur)'[i]
                    from == IF do_not_reorder_first_tag THEN 2 ELSE 1
                    old_rest == SubSeq(old, from, Len(old))
                    new_rest == SubSeq(new, from, Len(new))
                    counts == {CountOf(tag_counter, x) : x \in Range(old)}
                IN /\ Len(new) = Len(old)
                   /\ i \in Written(log') <=> new # old
                   /\ Len(old) < 2 => new = old
                   /\ (do_not_reorder_first_tag /\ old # <<>>) => new[1] = old[1]
                   /\ \A x \in Range(old) : Count(new_rest, x) = Count(old_rest, x)
                   /\ \A k, l \in 1..Len(new_rest) :
                         k < l => CountOf(tag_counter, new_rest[k])
                                    >= CountOf(tag_counter, new_rest[l])
                   /\ \A c \in counts :
                         SelectSeq(new_rest, LAMBDA x : CountOf(tag_counter, x) = c)
                           = SelectSeq(old_rest, LAMBDA x : CountOf(tag_counter, x) = c)
                   /\ (tag_counter = AB /\ old = <<T("b"), T("a")>>)
                        => new = IF do_not_reorder_first_tag THEN <<T("b"), T("a")>>
                                 ELSE <<T("a"), T("b")>>]_vars

\* ['d', 'c', 'a'] has been sorted to ['a', 'd', 'c']: 'd' and 'c', which
\* the counter lacks, keep their order.
C17_Witness ==
    /\ call.op = "sort_tags_by_frequency"
    /\ call.args[2] = FALSE
    /\ run.phase = "ops"
    /\ run.n = 1
    /\ run.base[1] = <<T("d"), T("c"), T("a")>>
    /\ Values(Cur)[1] = <<T("a"), T("d"), T("c")>>
    /\ 1 \in Written(log)

\* C18: rename_tag, delete_tag and find_and_replace on the filtered images
\* leave every image that is not filtered in with its tags, do not write it
\* and do not report it as an end of the changed range; the item they push
\* holds the tags of every image as they were before the call.
C18_FilteredScope ==
    [][LET op == call'.op
           at == IF op = "delete_tag" THEN 2 ELSE 3
       IN (op \in {"rename_tag", "delete_tag", "find_and_replace"}
           /\ call'.args[1] # <<>> /\ call'.args[at])
          => LET visible == call'.args[at + 1]
                 old == Values(Cur)
                 pushed == StackView(Cur, undo_stack)'[Len(undo_stack')]
             IN /\ \A i \in 1..Len(images) \ visible :
                      /\ Values(Cur)'[i] = old[i]
                      /\ i \notin Written(log')
                /\ \A k \in 1..Len(DataChanged(log')) :
                      /\ DataChanged(log')[k].i \in visible
                      /\ DataChanged(log')[k].j \in visible
                /\ Len(undo_stack') = Len(undo_stack) + 1
                /\ pushed.tags = old]_vars

\* rename_tag on the filtered images has changed the first image and left
\* the second, which holds the tag too, as it was.
C18_Witness ==
    /\ call.op = "rename_tag"
    /\ call.args[3]
    /\ call.args[4] = {1}
    /\ run.phase = "ops"
    /\ Written(log) = {1}
    /\ call.args[1] \in Range(Values(Cur)[2])
    /\ call.args[1] \notin Range(Values(Cur)[1])

\* C19: update_image_tags leaves both stacks and the tags and files of the
\* other images as they are; given the tags the image has, it changes
\* nothing, writes nothing and emits nothing; given other tags, it sets the
\* image's tags to them, writes the image's file and emits dataChanged for
\* that one row.
C19_UpdateTouchesOneImage ==
    [][call'.op = "update_image_tags"
       => LET i == call'.args[1]
              tags == call'.args[2]
              old == Values(Cur)
              new == Values(Cur)'
          IN /\ StackView(Cur, undo_stack)' = StackView(Cur, undo_stack)
             /\ StackView(Cur, redo_stack)' = StackView(Cur, redo_stack)
             /\ Len(new) = Len(old)
             /\ \A j \in 1..Len(images) \ {i} : new[j] = old[j] /\ disk'[j] = disk[j]
             /\ IF old[i] = tags
                THEN new = old /\ disk' = disk /\ log' = <<>>
                ELSE /\ new[i] = tags
                     /\ WriteAttempts(log') = <<i>>
                     /\ disk'[i] = File(tags)
                     /\ DataChanged(log') = <<Ev("dataChanged", i, i, TRUE)>>]_vars

\* update_image_tags has changed an image while both stacks hold items.
C19_Witness ==
    /\ call.op = "update_image_tags"
    /\ WriteAttempts(log) = <<call.args[1]>>
    /\ Values(Cur)[call.args[1]] = call.args[2]
    /\ undo_stack # <<>>
    /\ redo_stack # <<>>

\* update_image_tags has been given the tags the image has.
C19_WitnessSame ==
    /\ call.op = "update_image_tags"
    /\ log = <<>>
    /\ Values(Cur)[call.args[1]] = call.args[2]

\* C20: the item an operation pushes holds the tags of all images as they
\* were before the call, and in every call that changes tags each dataChanged
\* is emitted after the last write.
C20_SnapshotThenWritesThenNotify ==
    [][/\ (call'.op \in MutationOps /\ Len(undo_stack') = Len(undo_stack) + 1)
            => StackView(Cur, undo_stack)'[Len(undo_stack')].tags = Values(Cur)
       /\ \A k, l \in 1..Len(log') :
            (log'[k].ev = "dataChanged" /\ log'[l].ev = "write") => l < k]_vars

\* Every item of a stack holds one tag sequence for each image.
OnePerImage(stack) == \A k \in 1..Len(stack) : Len(stack[k].tags) = Len(images)

\* C21: in every state the undo stack and the redo stack together hold at
\* most UNDO_STACK_SIZE items, so the redo stack alone does too, and every
\* item of either stack holds one tag sequence for each image; and a redo
\* that is applied makes the undo stack one item longer and leaves the items
\* it held as they were, the oldest included.
C21_StacksShareTheBound ==
    /\ [](/\ Len(undo_stack) + Len(redo_stack) <= UNDO_STACK_SIZE
          /\ Len(redo_stack) <= UNDO_STACK_SIZE
          /\ OnePerImage(undo_stack)
          /\ OnePerImage(redo_stack))
    /\ [][(call'.op = "redo" /\ Applies(redo_stack, call'.reply)) =>
            /\ Len(undo_stack') = Len(undo_stack) + 1
            /\ SubSeq(StackView(Cur, undo_stack)', 1, Len(undo_stack))
                 = StackView(Cur, undo_stack)]_vars

\* A redo has filled the undo stack again after the stack had dropped its
\* oldest item: the item at the bottom is not the one of the first operation.
C21_Witness ==
    /\ call.op = "redo"
    /\ last.kind = "redo"
    /\ Len(undo_stack) = UNDO_STACK_SIZE
    /\ redo_stack = <<>>
    /\ StackView(Cur, undo_stack)[1].tags[1] # <<>>

\* An operation after an undo has filled the undo stack again and emptied
\* the redo stack.
C21_WitnessOperation ==
    /\ call.op = "add_tags"
    /\ last.kind = "mutation"
    /\ last.redo_before > 0
    /\ Len(undo_stack) = UNDO_STACK_SIZE

\* The redo stack holds UNDO_STACK_SIZE items.
C21_WitnessRedoFull ==
    /\ call.op = "undo"
    /\ Len(redo_stack) = UNDO_STACK_SIZE
    /\ undo_stack = <<>>

====
